---- MODULE Spec2Model ----
(***************************************************************************)
(* Model of mock_generator.py: the module-level setup (output path probe,  *)
(* session identity), ensure_pipe, the three record generators and the     *)
(* emission loop of main() with its exception handlers.                    *)
(*                                                                         *)
(* Numbers produced by the random source are fixed-point: a raw draw u of  *)
(* random.random() is an integer in 0 .. Unit-1 standing for u / Unit, and *)
(* a float value v is the integer v * Unit.                                *)
(***************************************************************************)
EXTENDS Integers, Sequences, FiniteSets, TLC

\* ------------------------------------------------------------------ bounds
\* Loop iterations explored for one run of main().
MaxIter == 5
\* Loop iterations explored for the pair of runs that share a random stream.
MaxTwinIter == 4

\* ------------------------------------------------------- program constants
TICK_STEP == 30
STATS_PERIOD == 120
SUFFIX_LO == 100000
SUFFIX_HI == 999999
PLAYER_INDEX == 1

Unit == 10 ^ 6
Milli == 10 ^ 3
\* random.random() < 0.2 and > 0.3, > 0.5 thresholds, as fixed-point values
EVENT_PROB == (2 * Unit) \div 10
ITEM_PROB == (3 * Unit) \div 10
FLUID_PROB == (5 * Unit) \div 10

LEVEL_NAME == "nauvis"

HOME_PIPE == "~/Library/Application Support/factorio/script-output/events.pipe"
TMP_PIPE == "/tmp/events.pipe"
POSSIBLE_PATHS == <<HOME_PIPE, TMP_PIPE>>

\* os.path.dirname of each candidate
dirname(p) ==
  IF p = HOME_PIPE THEN "~/Library/Application Support/factorio/script-output"
  ELSE "/tmp"

\* Event names are character sequences, so that the substring test of
\* generate_event is computed and not assumed.
ON_BUILT_ENTITY ==
  <<"o","n","_","b","u","i","l","t","_","e","n","t","i","t","y">>
ON_PLAYER_MINED_ENTITY ==
  <<"o","n","_","p","l","a","y","e","r","_","m","i","n","e","d","_",
    "e","n","t","i","t","y">>
ON_RESEARCH_STARTED ==
  <<"o","n","_","r","e","s","e","a","r","c","h","_","s","t","a","r","t","e","d">>
ON_RESEARCH_FINISHED ==
  <<"o","n","_","r","e","s","e","a","r","c","h","_","f","i","n","i","s","h","e","d">>
ON_PLAYER_CRAFTED_ITEM ==
  <<"o","n","_","p","l","a","y","e","r","_","c","r","a","f","t","e","d","_",
    "i","t","e","m">>
RESEARCH == <<"r","e","s","e","a","r","c","h">>

EVENT_TYPES ==
  <<ON_BUILT_ENTITY, ON_PLAYER_MINED_ENTITY, ON_RESEARCH_STARTED, ON_RESEARCH_FINISHED>>
ENTITIES ==
  <<"assembling-machine-1", "inserter", "transport-belt", "iron-chest", "stone-furnace">>
TECHS == <<"automation", "logistics", "steel-processing", "electronics">>
RECIPES == <<"iron-plate", "copper-cable", "electronic-circuit", "inserter">>
ITEMS == <<"iron-plate", "copper-plate", "electronic-circuit", "coal", "stone">>
FLUIDS == <<"water", "crude-oil", "petroleum-gas">>

\* ------------------------------------------------------------ the random API
\* Each takes the raw draw u it consumes.
Choice(seq, u) == seq[((u * Len(seq)) \div Unit) + 1]
Randint(a, b, u) == a + ((u \div Milli) * (b - a + 1)) \div (Unit \div Milli)
Uniform(a, b, u) == a * Unit + (b - a) * u

\* round(v, nd) of a fixed-point value: to the nearest multiple of
\* Unit / 10^nd, ties to the even multiple.
Round(v, nd) ==
  LET q == Unit \div (10 ^ nd)
      lo == (v \div q) * q
      r == v - lo
  IN  IF 2 * r < q THEN lo
      ELSE IF 2 * r > q THEN lo + q
      ELSE IF (lo \div q) % 2 = 0 THEN lo ELSE lo + q

\* sub in s, for character sequences
IsSubstring(sub, s) ==
  \E i \in 0 .. (Len(s) - Len(sub)) :
    \A j \in 1 .. Len(sub) : s[i + j] = sub[j]

\* The draw at position i of a random stream r (a non-empty sequence of raw
\* draws, repeated cyclically).
Draw(r, i) == r[((i - 1) % Len(r)) + 1]

\* ------------------------------------------------------------ module setup
\* Lines 13-20: the probe of the candidates from index i on; exists[d] is
\* os.path.exists(d) for a directory d. A raising probe is skipped by the bare
\* except, which leaves the same result as a probe that answers False.
\* The probe without its break: the last candidate that qualifies wins.
ProbeFrom_NoBreak(i, exists) ==
  LET S == {j \in i .. Len(POSSIBLE_PATHS) : exists[dirname(POSSIBLE_PATHS[j])]}
  IN  IF S = {} THEN POSSIBLE_PATHS[1]
      ELSE POSSIBLE_PATHS[CHOOSE j \in S : \A k \in S : k <= j]

RECURSIVE ProbeFrom(_, _)
ProbeFrom(i, exists) ==
  IF i > Len(POSSIBLE_PATHS) THEN POSSIBLE_PATHS[1]
  ELSE IF exists[dirname(POSSIBLE_PATHS[i])] THEN POSSIBLE_PATHS[i]
  ELSE ProbeFrom(i + 1, exists)

SelectPipePath(exists) == ProbeFrom(1, exists)

\* Line 25: the f-string, kept as its three parts.
FormatSessionId(level, init_tick, u) ==
  <<level, init_tick, Randint(SUFFIX_LO, SUFFIX_HI, u)>>

\* The module globals a run works with.
Globals(path, clock, u) ==
  [PIPE_PATH |-> path, INIT_TICK |-> clock,
   SESSION_ID |-> FormatSessionId(LEVEL_NAME, clock, u)]

\* --------------------------------------------------------------- generators
\* The init record with a session id formatted anew, a second later, instead
\* of the global one.
generate_session_init_OwnId(g) ==
  [type |-> "session_init",
   session_id |-> FormatSessionId(LEVEL_NAME, g.INIT_TICK + 1, 0),
   tick |-> 0, level_name |-> LEVEL_NAME]

\* The init record stamped with INIT_TICK instead of 0.
generate_session_init_ClockTick(g) ==
  [type |-> "session_init", session_id |-> g.SESSION_ID, tick |-> g.INIT_TICK,
   level_name |-> LEVEL_NAME]

generate_session_init(g) ==
  [type |-> "session_init", session_id |-> g.SESSION_ID, tick |-> 0,
   level_name |-> LEVEL_NAME]

\* The test as an equality instead of a substring test.
IsResearch_Equal(event_name) == event_name = RESEARCH

\* Line 62: "research" in event_name
IsResearch(event_name) == IsSubstring(RESEARCH, event_name)

\* generate_event(tick), reading its draws from the stream r in call order.
generate_event(g, tick, r) ==
  LET event_name == Choice(EVENT_TYPES \o <<ON_PLAYER_CRAFTED_ITEM>>, Draw(r, 1))
      payload == [type |-> "event", session_id |-> g.SESSION_ID, tick |-> tick,
                  event_name |-> event_name, player_index |-> PLAYER_INDEX]
  IN  IF IsResearch(event_name) THEN
        LET p2 == [tech_name |-> Choice(TECHS, Draw(r, 2)),
                   level |-> Randint(1, 5, Draw(r, 3))] @@ payload
        IN  IF event_name = ON_RESEARCH_FINISHED
            THEN [duration |-> Round(Uniform(60, 600, Draw(r, 4)), 2)] @@ p2
            ELSE p2
      ELSE IF event_name = ON_PLAYER_CRAFTED_ITEM THEN
        LET item == Choice(RECIPES, Draw(r, 2))
        IN  [item_name |-> item, count |-> Randint(1, 5, Draw(r, 3)),
             recipe |-> item] @@ payload
      ELSE
        [entity |-> Choice(ENTITIES, Draw(r, 2)),
         position |-> [x |-> Round(Uniform(0, 100, Draw(r, 3)), 1),
                       y |-> Round(Uniform(0, 100, Draw(r, 4)), 1)]] @@ payload

format_number(num) == Round(num, 5)

\* Line 98: the cycle number of a stats record.
Cycle(tick) == tick \div STATS_PERIOD

\* Lines 85-89: the loop over ITEMS from index i on. acc carries the two
\* dictionaries and the number n of draws consumed so far.
RECURSIVE ItemsLoop(_, _, _)
ItemsLoop(i, acc, r) ==
  IF i > Len(ITEMS) THEN acc
  ELSE
    LET item == ITEMS[i]
        inP == Draw(r, acc.n + 1) > ITEM_PROB
        nP == acc.n + (IF inP THEN 2 ELSE 1)
        prod == IF inP
                THEN (item :> format_number(Uniform(0, 200, Draw(r, acc.n + 2))))
                     @@ acc.prod
                ELSE acc.prod
        inC == Draw(r, nP + 1) > ITEM_PROB
        nC == nP + (IF inC THEN 2 ELSE 1)
        cons == IF inC
                THEN (item :> format_number(Uniform(0, 200, Draw(r, nP + 2))))
                     @@ acc.cons
                ELSE acc.cons
    IN  ItemsLoop(i + 1, [prod |-> prod, cons |-> cons, n |-> nC], r)

\* Lines 91-93: the loop over FLUIDS from index i on.
RECURSIVE FluidsLoop(_, _, _)
FluidsLoop(i, acc, r) ==
  IF i > Len(FLUIDS) THEN acc
  ELSE
    LET fluid == FLUIDS[i]
        inP == Draw(r, acc.n + 1) > FLUID_PROB
        prod == IF inP
                THEN (fluid :> format_number(Uniform(0, 500, Draw(r, acc.n + 2))))
                     @@ acc.prod
                ELSE acc.prod
    IN  FluidsLoop(i + 1, [prod |-> prod, cons |-> acc.cons,
                           n |-> acc.n + (IF inP THEN 2 ELSE 1)], r)

\* generate_status(tick), reading its draws from the stream r in call order.
generate_status(g, tick, r) ==
  LET a == FluidsLoop(1, ItemsLoop(1, [prod |-> <<>>, cons |-> <<>>, n |-> 0], r), r)
  IN  [type |-> "stats",
       session_id |-> g.SESSION_ID,
       cycle |-> Cycle(tick),
       tick |-> tick,
       player |-> [position |-> [x |-> Round(Uniform(0, 100, Draw(r, a.n + 1)), 1),
                                 y |-> Round(Uniform(0, 100, Draw(r, a.n + 2)), 1)],
                   surface |-> "nauvis",
                   health |-> 250 * Unit],
       screenshot_path |-> <<"scans", g.SESSION_ID, "tick", tick, "jpg">>,
       products_production |-> a.prod,
       materials_consumption |-> a.cons]

\* json.dumps(record) + "\n": the line handed to f.write.
Line(record) == [json |-> record, end |-> "\n"]

\* ------------------------------------------------------------------- state
VARIABLES
  dirExists,    \* file system: which candidate directories exist
  pathKind,     \* file system: what is at PIPE_PATH: "absent", "fifo", "regular"
  g,            \* the module globals PIPE_PATH, INIT_TICK, SESSION_ID
  pc,           \* position of main()
  probe,        \* what ensure_pipe found at PIPE_PATH ("unchecked" before it ran)
  mkfifoCalls,  \* number of os.mkfifo calls made
  openCalls,    \* number of open(PIPE_PATH, "w") calls made
  f,            \* the stream: "unopened", "open", "closed"
  readerOpen,   \* whether the reading end of the pipe is still open
  buffer,       \* lines written to f and not yet flushed
  written,      \* history of f.write calls: iteration, routing fields of the record
  tick,         \* the local tick of main()
  iter,         \* number of loop iterations started
  init_data,    \* locals of main(): the last record generated of each kind
  event_data,
  status_data,
  statsInIter,  \* whether a stats record was written in the current iteration
  exc,          \* the exception that left the try block, "none" before
  twin,         \* the pair of runs sharing one random stream (idle in Spec)
  gen           \* the generator under test (idle in Spec)

mainVars ==
  <<dirExists, pathKind, g, pc, probe, mkfifoCalls, openCalls, f, readerOpen,
    buffer, written, tick, iter, init_data, event_data, status_data, statsInIter, exc>>
aux == <<twin, gen>>
vars == <<mainVars, aux>>

\* ------------------------------------------------------- inputs of the model
Dirs == {dirname(POSSIBLE_PATHS[i]) : i \in 1 .. Len(POSSIBLE_PATHS)}
Kinds == {"absent", "fifo", "regular"}
\* int(time.time()) at import
Clocks == {1700000000, 1700000001}
\* raw draws: one per fifth of the unit interval, and the two extremes
NameDraws == {0, 210000, 450000, 620000, 999999}
CoarseDraws == {0, 999999}
RollDraws == {0, 199999, 200000, 999999}
SeedDraws == {0, 999999}
\* the suffix draw of the runs of Spec
RunSeeds == {0}
\* random streams read by one call of generate_event, generate_status
EventStreams == {<<a, 999999 - a>> : a \in NameDraws}
StatusStreams == {<<999999, 123456>>, <<400000, 0, 999999>>}

None == [type |-> "None"]
Idle == [on |-> FALSE]

\* The routing fields of a record, as kept in the write history.
Header(record) ==
  [k \in (DOMAIN record) \cap {"type", "session_id", "tick", "cycle"} |-> record[k]]

Init ==
  /\ dirExists \in [Dirs -> BOOLEAN]
  /\ pathKind \in Kinds
  /\ \E clock \in Clocks, u \in RunSeeds :
       g = Globals(SelectPipePath(dirExists), clock, u)
  /\ (~dirExists[dirname(g.PIPE_PATH)]) => pathKind = "absent"
  /\ pc = "ensure_pipe"
  /\ probe = "unchecked"
  /\ mkfifoCalls = 0
  /\ openCalls = 0
  /\ f = "unopened"
  /\ readerOpen = FALSE
  /\ buffer = <<>>
  /\ written = <<>>
  /\ tick = 0
  /\ iter = 0
  /\ init_data = None
  /\ event_data = None
  /\ status_data = None
  /\ statsInIter = FALSE
  /\ exc = "none"
  /\ twin = Idle
  /\ gen = Idle

\* ensure_pipe without its except clause: a failing os.mkfifo ends main().
ensure_pipe_Uncaught ==
  /\ pc = "ensure_pipe"
  /\ probe' = pathKind
  /\ IF pathKind = "absent"
     THEN /\ mkfifoCalls' = mkfifoCalls + 1
          /\ \/ dirExists[dirname(g.PIPE_PATH)] /\ pathKind' = "fifo" /\ pc' = "open"
             \/ pathKind' = pathKind /\ pc' = "done"
     ELSE UNCHANGED <<mkfifoCalls, pathKind>> /\ pc' = "open"
  /\ UNCHANGED <<dirExists, g, openCalls, f, readerOpen, buffer, written, tick, iter,
                 init_data, event_data, status_data, statsInIter, exc, aux>>

\* ------------------------------------------------------------- ensure_pipe
\* Lines 34-40. os.mkfifo succeeds only in an existing directory and can fail
\* there too (permissions); its OSError is caught and printed.
ensure_pipe ==
  /\ pc = "ensure_pipe"
  /\ probe' = pathKind
  /\ IF pathKind = "absent"
     THEN /\ mkfifoCalls' = mkfifoCalls + 1
          /\ \/ dirExists[dirname(g.PIPE_PATH)] /\ pathKind' = "fifo"
             \/ pathKind' = pathKind
     ELSE UNCHANGED <<mkfifoCalls, pathKind>>
  /\ pc' = "open"
  /\ UNCHANGED <<dirExists, g, openCalls, f, readerOpen, buffer, written, tick, iter,
                 init_data, event_data, status_data, statsInIter, exc, aux>>

\* The stream opened without the with statement: nothing closes it.
Raise_NoClose(e) ==
  /\ exc' = e
  /\ f' = f
  /\ buffer' = <<>>
  /\ pc' = "except"

\* ------------------------------------------------------- leaving the try block
\* An exception raised inside the with block: the context manager closes f
\* (what is still buffered is flushed or lost with it) and control reaches the
\* matching except clause.
Raise(e) ==
  /\ exc' = e
  /\ f' = IF f = "open" THEN "closed" ELSE f
  /\ buffer' = <<>>
  /\ pc' = "except"

\* Lines 146-151: the except clause prints and main() returns.
Handle ==
  /\ pc = "except"
  /\ pc' = "done"
  /\ UNCHANGED <<dirExists, pathKind, g, probe, mkfifoCalls, openCalls, f, readerOpen,
                 buffer, written, tick, iter, init_data, event_data, status_data,
                 statsInIter, exc, aux>>

\* ------------------------------------------------------------------- main
\* Line 120: open(PIPE_PATH, "w") succeeds; it creates a regular file when
\* nothing is at the path.
OpenStream ==
  /\ pc = "open"
  /\ dirExists[dirname(g.PIPE_PATH)]
  /\ openCalls' = openCalls + 1
  /\ f' = "open"
  /\ readerOpen' = TRUE
  /\ pathKind' = IF pathKind = "absent" THEN "regular" ELSE pathKind
  /\ pc' = "init"
  /\ UNCHANGED <<dirExists, g, probe, mkfifoCalls, buffer, written, tick, iter,
                 init_data, event_data, status_data, statsInIter, exc, aux>>

\* Line 120: open raises (no such directory, permissions), or the interrupt
\* signal arrives while it blocks waiting for a reader.
OpenRaises ==
  /\ pc = "open"
  /\ openCalls' = openCalls + 1
  /\ \E e \in {"Exception", "KeyboardInterrupt"} : Raise(e)
  /\ UNCHANGED <<dirExists, pathKind, g, probe, mkfifoCalls, readerOpen, written, tick,
                 iter, init_data, event_data, status_data, statsInIter, aux>>

\* f.write(json.dumps(record) + "\n") in iteration k: the line enters the buffer.
Write(record, k) ==
  /\ buffer' = Append(buffer, Line(record))
  /\ written' = Append(written, [iter |-> k, rec |-> Header(record)])

\* f.flush() succeeds: the buffer is handed to the reader.
Flush ==
  /\ readerOpen
  /\ buffer' = <<>>

\* Lines 122-123: the init record is generated and written.
WriteInit ==
  /\ pc = "init"
  /\ init_data' = generate_session_init(g)
  /\ Write(init_data', iter)
  /\ pc' = "flush_init"
  /\ UNCHANGED <<dirExists, pathKind, g, probe, mkfifoCalls, openCalls, f, readerOpen,
                 tick, iter, event_data, status_data, statsInIter, exc, aux>>

\* Lines 124-127: flush, print, tick = 0.
FlushInit ==
  /\ pc = "flush_init"
  /\ Flush
  /\ tick' = 0
  /\ pc' = "sleep"
  /\ UNCHANGED <<dirExists, pathKind, g, probe, mkfifoCalls, openCalls, f, readerOpen,
                 written, iter, init_data, event_data, status_data, statsInIter, exc,
                 aux>>

\* tick += 1
AdvanceTick_One(t) == t + 1

\* Line 130
AdvanceTick(t) == t + TICK_STEP

\* Lines 128-130: a new iteration: sleep, then tick += 30.
SleepAndAdvance ==
  /\ pc = "sleep"
  /\ iter < MaxIter
  /\ tick' = AdvanceTick(tick)
  /\ iter' = iter + 1
  /\ statsInIter' = FALSE
  /\ pc' = "event"
  /\ UNCHANGED <<dirExists, pathKind, g, probe, mkfifoCalls, openCalls, f, readerOpen,
                 buffer, written, init_data, event_data, status_data, exc, aux>>

\* Line 133: random.random() < 0.2
EventRoll(u) == u < EVENT_PROB

\* Lines 133-135: the roll succeeds; the event record is generated and written.
WriteEvent ==
  /\ pc = "event"
  /\ \E u \in RollDraws, r \in EventStreams :
       /\ EventRoll(u)
       /\ event_data' = generate_event(g, tick, r)
  /\ Write(event_data', iter)
  /\ pc' = "flush_event"
  /\ UNCHANGED <<dirExists, pathKind, g, probe, mkfifoCalls, openCalls, f, readerOpen,
                 tick, iter, init_data, status_data, statsInIter, exc, aux>>

\* Line 133: the roll fails; no event record in this iteration.
SkipEvent ==
  /\ pc = "event"
  /\ \E u \in RollDraws : ~EventRoll(u)
  /\ pc' = "stats"
  /\ UNCHANGED <<dirExists, pathKind, g, probe, mkfifoCalls, openCalls, f, readerOpen,
                 buffer, written, tick, iter, init_data, event_data, status_data,
                 statsInIter, exc, aux>>

\* The event branch without its f.flush().
FlushEvent_Missing ==
  /\ pc = "flush_event"
  /\ pc' = "stats"
  /\ UNCHANGED <<dirExists, pathKind, g, probe, mkfifoCalls, openCalls, f, readerOpen,
                 buffer, written, tick, iter, init_data, event_data, status_data,
                 statsInIter, exc, aux>>

\* Lines 136-137: flush, print.
FlushEvent ==
  /\ pc = "flush_event"
  /\ Flush
  /\ pc' = "stats"
  /\ UNCHANGED <<dirExists, pathKind, g, probe, mkfifoCalls, openCalls, f, readerOpen,
                 written, tick, iter, init_data, event_data, status_data, statsInIter,
                 exc, aux>>

\* The period mistaken for twice the tick step.
StatsDue_Sixty(t) == t % (2 * TICK_STEP) = 0

\* Line 140: tick % 120 == 0
StatsDue(t) == t % STATS_PERIOD = 0

\* Lines 140-142: the stats record is generated and written.
WriteStats ==
  /\ pc = "stats"
  /\ StatsDue(tick)
  /\ \E r \in StatusStreams : status_data' = generate_status(g, tick, r)
  /\ Write(status_data', iter)
  /\ statsInIter' = TRUE
  /\ pc' = "flush_stats"
  /\ UNCHANGED <<dirExists, pathKind, g, probe, mkfifoCalls, openCalls, f, readerOpen,
                 tick, iter, init_data, event_data, exc, aux>>

\* Line 140: not a stats tick; the iteration ends.
SkipStats ==
  /\ pc = "stats"
  /\ ~StatsDue(tick)
  /\ pc' = "sleep"
  /\ UNCHANGED <<dirExists, pathKind, g, probe, mkfifoCalls, openCalls, f, readerOpen,
                 buffer, written, tick, iter, init_data, event_data, status_data,
                 statsInIter, exc, aux>>

\* Lines 143-144: flush, print; the iteration ends.
FlushStats ==
  /\ pc = "flush_stats"
  /\ Flush
  /\ pc' = "sleep"
  /\ UNCHANGED <<dirExists, pathKind, g, probe, mkfifoCalls, openCalls, f, readerOpen,
                 written, tick, iter, init_data, event_data, status_data, statsInIter,
                 exc, aux>>

\* ------------------------------------------------------------- environment
\* The reader closes its end of the pipe.
ReaderCloses ==
  /\ f = "open"
  /\ readerOpen
  /\ readerOpen' = FALSE
  /\ UNCHANGED <<dirExists, pathKind, g, pc, probe, mkfifoCalls, openCalls, f, buffer,
                 written, tick, iter, init_data, event_data, status_data, statsInIter,
                 exc, aux>>

InWith == {"init", "flush_init", "sleep", "event", "flush_event", "stats",
           "flush_stats"}
AtWrite == {"init", "event", "stats"}
AtFlush == {"flush_init", "flush_event", "flush_stats"}

\* Line 146: an interrupt signal arrives anywhere inside the with block.
Interrupt ==
  /\ pc \in InWith
  /\ Raise("KeyboardInterrupt")
  /\ UNCHANGED <<dirExists, pathKind, g, probe, mkfifoCalls, openCalls, readerOpen,
                 written, tick, iter, init_data, event_data, status_data, statsInIter,
                 aux>>

\* Lines 123, 135, 142: json.dumps or f.write raises; nothing is written.
\* Line 142 is reached only on a stats tick.
WriteRaises ==
  /\ pc \in AtWrite
  /\ pc = "stats" => StatsDue(tick)
  /\ Raise("Exception")
  /\ UNCHANGED <<dirExists, pathKind, g, probe, mkfifoCalls, openCalls, readerOpen,
                 written, tick, iter, init_data, event_data, status_data, statsInIter,
                 aux>>

\* The flush error swallowed inside the loop: the flush is tried again.
FlushRaises_Retry ==
  /\ pc \in AtFlush
  /\ exc' = (IF readerOpen THEN "Exception" ELSE "BrokenPipeError")
  /\ UNCHANGED <<dirExists, pathKind, g, pc, probe, mkfifoCalls, openCalls, f,
                 readerOpen, buffer, written, tick, iter, init_data, event_data,
                 status_data, statsInIter, aux>>

\* Lines 124, 136, 143: f.flush raises: BrokenPipeError when the reader is
\* gone (line 148), another OSError otherwise (line 150).
FlushRaises ==
  /\ pc \in AtFlush
  /\ Raise(IF readerOpen THEN "Exception" ELSE "BrokenPipeError")
  /\ UNCHANGED <<dirExists, pathKind, g, probe, mkfifoCalls, openCalls, readerOpen,
                 written, tick, iter, init_data, event_data, status_data, statsInIter,
                 aux>>

Next ==
  \/ ensure_pipe
  \/ OpenStream
  \/ OpenRaises
  \/ WriteInit
  \/ FlushInit
  \/ SleepAndAdvance
  \/ WriteEvent
  \/ SkipEvent
  \/ FlushEvent
  \/ WriteStats
  \/ SkipStats
  \/ FlushStats
  \/ ReaderCloses
  \/ Interrupt
  \/ WriteRaises
  \/ FlushRaises
  \/ Handle

Spec == Init /\ [][Next]_vars

\* ------------------------------------------------- generate_event on its own
\* main() is not running in the two specifications below.
MainIdle ==
  /\ dirExists = [d \in Dirs |-> TRUE]
  /\ pathKind = "fifo"
  /\ pc = "idle"
  /\ probe = "unchecked"
  /\ mkfifoCalls = 0
  /\ openCalls = 0
  /\ f = "unopened"
  /\ readerOpen = FALSE
  /\ buffer = <<>>
  /\ written = <<>>
  /\ tick = 0
  /\ iter = 0
  /\ init_data = None
  /\ event_data = None
  /\ status_data = None
  /\ statsInIter = FALSE
  /\ exc = "none"

GenDraws == {0, 500000, 999999}
GenStreams ==
  {<<a, b, c, d>> : a \in NameDraws, b \in GenDraws, c \in GenDraws, d \in GenDraws}

GenInit ==
  /\ MainIdle
  /\ g \in {Globals(SelectPipePath(dirExists), clock, u) :
              clock \in Clocks, u \in SeedDraws}
  /\ twin = Idle
  /\ \E k \in 1 .. MaxIter, r \in GenStreams :
       gen = [on |-> TRUE, tick |-> TICK_STEP * k, r |-> r, out |-> None]

\* One call generate_event(tick) with the draws r.
CallGenerateEvent ==
  /\ gen.on
  /\ gen.out = None
  /\ gen' = [gen EXCEPT !.out = generate_event(g, gen.tick, gen.r)]
  /\ UNCHANGED <<mainVars, twin>>

GenNext == CallGenerateEvent

GenSpec == GenInit /\ [][GenNext]_vars

\* ------------------------------------------ two runs on one random stream
\* Lines 128-144: the lines one iteration writes at tick t, given the roll u
\* and the streams read by the two generators.
IterationLines(gl, t, u, re, rs) ==
  (IF EventRoll(u) THEN <<Line(generate_event(gl, t, re))>> ELSE <<>>)
  \o (IF StatsDue(t) THEN <<Line(generate_status(gl, t, rs))>> ELSE <<>>)

\* Runs A and B are seeded alike, so every random call returns the same draw
\* in both; each run reads the wall clock for itself at import.
TwinInit ==
  /\ MainIdle
  /\ gen = Idle
  /\ \E clockA \in Clocks, clockB \in Clocks, u \in SeedDraws :
       /\ g = Globals(SelectPipePath(dirExists), clockA, u)
       /\ twin = [on |-> TRUE, pc |-> "init", tick |-> 0, iter |-> 0,
                  gA |-> Globals(SelectPipePath(dirExists), clockA, u),
                  gB |-> Globals(SelectPipePath(dirExists), clockB, u),
                  outA |-> <<>>, outB |-> <<>>]

\* Lines 122-127 in both runs.
TwinWriteInit ==
  /\ twin.on
  /\ twin.pc = "init"
  /\ twin' = [twin EXCEPT !.pc = "loop",
                          !.outA = <<Line(generate_session_init(twin.gA))>>,
                          !.outB = <<Line(generate_session_init(twin.gB))>>]
  /\ UNCHANGED <<mainVars, gen>>

\* Lines 128-144 in both runs, on the same draws.
TwinIterate ==
  /\ twin.on
  /\ twin.pc = "loop"
  /\ twin.iter < MaxTwinIter
  /\ \E u \in RollDraws, re \in EventStreams, rs \in StatusStreams :
       LET t == AdvanceTick(twin.tick)
       IN  twin' = [twin EXCEPT
                      !.tick = t,
                      !.iter = @ + 1,
                      !.outA = @ \o IterationLines(twin.gA, t, u, re, rs),
                      !.outB = @ \o IterationLines(twin.gB, t, u, re, rs)]
  /\ UNCHANGED <<mainVars, gen>>

TwinNext ==
  \/ TwinWriteInit
  \/ TwinIterate

TwinSpec == TwinInit /\ [][TwinNext]_vars

\* ------------------------------------------------------------------ claims
InLoop == {"sleep", "event", "flush_event", "stats", "flush_stats"}
Types(seq) == {seq[i].rec.type : i \in 1 .. Len(seq)}

\* C1: in a run that opened the stream, the first record written is the init
\* record (type session_init, tick 0); it is written once, before the first
\* iteration, the loop is entered only after it was written, and every later
\* record is an event or stats record with the init record's session_id.
C1_InitRecordFirst ==
  /\ written # <<>> => /\ f # "unopened"
                       /\ written[1].rec.type = "session_init"
                       /\ written[1].rec.tick = 0
                       /\ written[1].iter = 0
                       /\ written[1].rec.session_id = g.SESSION_ID
  /\ \A i \in 2 .. Len(written) :
       /\ written[i].rec.type \in {"event", "stats"}
       /\ written[i].iter >= 1
       /\ written[i].rec.session_id = written[1].rec.session_id
  /\ (pc \in InLoop \/ iter >= 1) => Len(written) >= 1

\* C1 witness: the init record, an event record and a stats record were written.
C1_Witness ==
  /\ Len(written) >= 3
  /\ Types(written) = {"session_init", "event", "stats"}

\* C2: every stats record written carries a tick that is a multiple of 120
\* and cycle = tick div 120; an iteration that ran to its end wrote a stats
\* record if and only if its tick is a multiple of 120; and no iteration,
\* finished or not, writes one at another tick.
C2_StatsEvery120 ==
  /\ \A i \in 1 .. Len(written) :
       written[i].rec.type = "stats" =>
         /\ written[i].rec.tick % 120 = 0
         /\ written[i].rec.cycle = written[i].rec.tick \div 120
         /\ written[i].rec.tick = 30 * written[i].iter
  /\ (pc = "sleep" /\ iter >= 1) => (statsInIter <=> tick % 120 = 0)
  /\ (pc = "sleep" /\ iter >= 1 /\ tick % 120 = 0) =>
       /\ written[Len(written)].rec.type = "stats"
       /\ written[Len(written)].rec.tick = tick
  /\ tick % 120 # 0 => ~statsInIter

\* C2 witness: the iteration at tick 150 has ended with an event record and
\* no stats record, after the stats record of tick 120 with cycle 1.
C2_Witness ==
  /\ pc = "sleep"
  /\ tick = 150
  /\ \E i \in 1 .. Len(written) :
       written[i].rec.type = "stats" /\ written[i].rec.tick = 120
       /\ written[i].rec.cycle = 1
  /\ written[Len(written)].rec.type = "event"
  /\ written[Len(written)].rec.tick = 150

\* C3: tick is 0 before the loop and 30 times the number of iterations
\* started; a step changes it only by adding 30 when an iteration starts;
\* every record written in iteration k carries tick 30 * k (the init record,
\* iteration 0, carries 0); the ticks in write order never decrease.
C3_TickAdvancesBy30 ==
  /\ [](/\ tick = 30 * iter
        /\ \A i \in 1 .. Len(written) : written[i].rec.tick = 30 * written[i].iter
        /\ \A i \in 1 .. Len(written) : \A j \in i .. Len(written) :
             written[i].rec.tick <= written[j].rec.tick)
  /\ [][/\ tick' >= tick
        /\ tick' # tick => (tick' = tick + 30 /\ iter' = iter + 1 /\ pc = "sleep")
        /\ iter' # iter => tick' = tick + 30]_vars

\* C3 witness: records of three different ticks were written.
C3_Witness ==
  /\ iter >= 3
  /\ Cardinality({written[i].rec.tick : i \in 1 .. Len(written)}) >= 3

Base == {"type", "session_id", "tick", "event_name", "player_index"}
ResearchFields == {"tech_name", "level"}
CraftFields == {"item_name", "count", "recipe"}
EntityFields == {"entity", "position"}

\* C4: an event record produced by generate_event(tick) has one of the five
\* event names and the fields of exactly one variant, the one of its name:
\* research names carry tech_name and level (duration too if and only if the
\* name is on_research_finished), on_player_crafted_item carries item_name,
\* count and recipe, on_built_entity and on_player_mined_entity carry entity
\* and position; no record carries a field of another variant.
C4_OneVariantPerEvent ==
  (gen.on /\ gen.out # None) =>
    LET e == gen.out
        n == e.event_name
        d == DOMAIN e
    IN  /\ e.type = "event"
        /\ e.tick = gen.tick
        /\ n \in {ON_BUILT_ENTITY, ON_PLAYER_MINED_ENTITY, ON_RESEARCH_STARTED,
                  ON_RESEARCH_FINISHED, ON_PLAYER_CRAFTED_ITEM}
        /\ n = ON_RESEARCH_STARTED => d = Base \cup ResearchFields
        /\ n = ON_RESEARCH_FINISHED => d = Base \cup ResearchFields \cup {"duration"}
        /\ n = ON_PLAYER_CRAFTED_ITEM => d = Base \cup CraftFields
        /\ n \in {ON_BUILT_ENTITY, ON_PLAYER_MINED_ENTITY} => d = Base \cup EntityFields

\* C4 witness: generate_event returned an on_research_finished record.
C4_Witness ==
  /\ gen.on
  /\ gen.out # None
  /\ gen.out.event_name = ON_RESEARCH_FINISHED
  /\ "duration" \in DOMAIN gen.out

\* C5: once an exception has left the try block (a failed write or flush, an
\* interrupt, any other error), the stream is not open, no f.write happens,
\* open is not called again, the loop is not re-entered, and the only step
\* left is the return of main(); the failing step itself writes nothing. A
\* BrokenPipeError comes only from a flush with the reader gone.
C5_StopsAtFirstFailure ==
  /\ [](exc # "none" => (pc \in {"except", "done"} /\ f # "open"))
  /\ [][exc # "none" => /\ written' = written
                        /\ openCalls' = openCalls
                        /\ exc' = exc
                        /\ tick' = tick
                        /\ pc' = "done"]_vars
  /\ [][(exc = "none" /\ exc' # "none") =>
          /\ written' = written
          /\ pc' = "except"
          /\ exc' = "BrokenPipeError" => (pc \in AtFlush /\ ~readerOpen)]_vars

\* C5 witness: main() has returned after a broken pipe in the loop.
C5_Witness ==
  /\ pc = "done"
  /\ exc = "BrokenPipeError"
  /\ iter >= 1
  /\ Len(written) >= 2

\* C6: open is called at most once in a run, the stream is open only while
\* control is inside the with block, and it is not open once control has
\* left the loop: no state in which main() has returned has it open.
C6_StreamClosedOnExit ==
  /\ openCalls <= 1
  /\ f = "open" => pc \in InWith
  /\ pc \in {"except", "done"} => f \in {"unopened", "closed"}
  /\ (pc \in {"except", "done"} /\ written # <<>>) => f = "closed"

\* C6 witness: main() has returned after an interrupt in the loop, stream closed.
C6_Witness ==
  /\ pc = "done"
  /\ exc = "KeyboardInterrupt"
  /\ f = "closed"
  /\ iter >= 1

Qualifying == {i \in 1 .. Len(POSSIBLE_PATHS) : dirExists[dirname(POSSIBLE_PATHS[i])]}
FirstQualifying == POSSIBLE_PATHS[CHOOSE i \in Qualifying : \A j \in Qualifying : i <= j]

\* C7 as stated: the chosen path is the first candidate whose parent
\* directory exists, and the last candidate when none exists.
C7_FallbackIsLast ==
  g.PIPE_PATH = IF Qualifying # {} THEN FirstQualifying
                ELSE POSSIBLE_PATHS[Len(POSSIBLE_PATHS)]

\* C7 amended: the chosen path is the first candidate whose parent directory
\* exists, and the first candidate of the list when none exists.
C7_FallbackIsFirst ==
  g.PIPE_PATH = IF Qualifying # {} THEN FirstQualifying ELSE POSSIBLE_PATHS[1]

\* C7 witness: main() runs with a path chosen when no parent directory exists.
C7_Witness ==
  /\ Qualifying = {}
  /\ pc = "open"

\* C8 as stated: ensure_pipe calls os.mkfifo exactly when the path is not
\* already a special file.
C8_CreatesUnlessSpecialFile ==
  probe # "unchecked" => (mkfifoCalls = 1 <=> probe # "fifo")

\* C8 amended: ensure_pipe calls os.mkfifo exactly when nothing exists at the
\* path (a regular file there is left alone); whether the path existed, was
\* created or could not be created, main() goes on to open it: it never
\* ends without having called open.
C8_CreatesWhenAbsent ==
  /\ mkfifoCalls <= 1
  /\ probe # "unchecked" => (mkfifoCalls = 1 <=> probe = "absent")
  /\ probe = "unchecked" => (mkfifoCalls = 0 /\ pc = "ensure_pipe")
  /\ pc \notin {"ensure_pipe", "open"} => openCalls = 1

\* C8 witness: os.mkfifo was called and failed, and open was called all the same.
C8_Witness ==
  /\ probe = "absent"
  /\ mkfifoCalls = 1
  /\ pathKind = "absent"
  /\ openCalls = 1

Except(rec, fields) == [k \in (DOMAIN rec) \ fields |-> rec[k]]
SessionFields == {"session_id", "screenshot_path"}

\* C9 as stated: two runs on the same random draws write identical streams.
C9_ByteIdentical ==
  twin.on => twin.outA = twin.outB

\* C9 amended: two runs on the same random draws write the same number of
\* records, equal in every field but session_id and the screenshot_path built
\* from it; the session_id is level name, the run's own int(time.time()) and
\* the drawn suffix, so the streams are identical when the two runs also
\* read the same clock value at import.
C9_IdenticalUpToClock ==
  twin.on =>
    /\ Len(twin.outA) = Len(twin.outB)
    /\ \A i \in 1 .. Len(twin.outA) :
         /\ twin.outA[i].end = twin.outB[i].end
         /\ Except(twin.outA[i].json, SessionFields)
              = Except(twin.outB[i].json, SessionFields)
         /\ twin.outA[i].json.session_id[1] = twin.outB[i].json.session_id[1]
         /\ twin.outA[i].json.session_id[2] = twin.gA.INIT_TICK
         /\ twin.outB[i].json.session_id[2] = twin.gB.INIT_TICK
         /\ twin.outA[i].json.session_id[3] = twin.outB[i].json.session_id[3]
    /\ twin.gA.INIT_TICK = twin.gB.INIT_TICK => twin.outA = twin.outB

\* C9 witness: two runs that read different clocks have written init, event
\* and stats records.
C9_Witness ==
  /\ twin.on
  /\ twin.gA.INIT_TICK # twin.gB.INIT_TICK
  /\ {twin.outA[i].json.type : i \in 1 .. Len(twin.outA)}
       = {"session_init", "event", "stats"}

\* C10: every line written ends with a newline and is flushed before
\* anything else happens: where the loop sleeps, rolls for an event or
\* decides on a stats record the buffer is empty, at most one line is ever
\* buffered, and within an iteration an event record precedes the stats record.
C10_FlushedAtOnce ==
  /\ pc \in {"sleep", "event", "stats"} => buffer = <<>>
  /\ Len(buffer) <= 1
  /\ buffer # <<>> => /\ pc \in AtFlush
                      /\ buffer[1].end = "\n"
                      /\ Header(buffer[1].json) = written[Len(written)].rec
  /\ \A i \in 1 .. Len(written) : \A j \in i .. Len(written) :
       (written[i].iter = written[j].iter /\ written[i].rec.type = "stats")
         => i = j

\* C10 witness: at a stats tick, the event record of the iteration has been
\* written and flushed and the stats record is about to be generated.
C10_Witness ==
  /\ pc = "stats"
  /\ tick % 120 = 0
  /\ written[Len(written)].rec.type = "event"
  /\ written[Len(written)].iter = iter
  /\ buffer = <<>>

====
